---- MODULE Spec2Model ----
(***************************************************************************)
(* Don's Media Archive API (src/app.py): the four request handlers of the  *)
(* media namespace (list, create, search, delete), init_db, and the SQLite *)
(* store they share, as a state machine.                                   *)
(*                                                                         *)
(* Text is a sequence of one-character strings, so that the LIKE operator  *)
(* of the search statement and the substring relation of the documentation *)
(* are both computed character by character.                               *)
(***************************************************************************)
EXTENDS Naturals, Sequences, FiniteSets

VARIABLES
    fileExists,     \* the file DATABASE exists on disk
    tableDefined,   \* the file holds the media table
    initpc,         \* position of init_db: off, check, connect, create, done
    media,          \* committed rows of the media table, in rowid order
    seq,            \* committed sqlite_sequence entry of media (AUTOINCREMENT)
    lock,           \* holder of SQLite's RESERVED (writer) lock
    pc,             \* position of each worker inside its handler
    req,            \* the request each worker is serving (or served last)
    conn,           \* the connection opened by the worker's current request
    txn,            \* uncommitted changes of the worker's connection
    cursor,         \* lastrowid / rowcount / fetchall() result of the worker
    resp,           \* the (body, status) pair the handler returned
    pre,            \* test client: the committed rows when its request arrived
    live,           \* test client: records it created (201) and did not delete
    gone,           \* test client: ids whose delete answered it 200
    lastDel,        \* test client: id of its directly preceding 200 delete
    issued          \* committed inserts, in commit order

storeVars == <<fileExists, tableDefined, media, seq, lock>>
workVars  == <<pc, req, conn, txn, cursor, resp>>
ledgerVars == <<pre, live, gone, lastDel, issued>>
vars == <<fileExists, tableDefined, initpc, media, seq, lock, pc, req, conn,
          txn, cursor, resp, pre, live, gone, lastDel, issued>>

---------------------------------------------------------------------------
(* Bounds and inputs *)

\* Largest id the store hands out before no further create is accepted.
MaxId == 3

\* Workers serving requests. Worker 1 serves the test client of
\* src/test_app.py, which sends one request at a time and keeps a ledger of
\* what it was answered; workers 2 and 3 serve clients that run concurrently.
Procs == {1, 2, 3}
SeqProcs == {1}
ConcProcs == {2, 3}

\* Python None / JSON null / absent key / SQL NULL.
None == <<"NULL">>

\* Lock holders that are not workers.
Free == 0
Leaked == 99

VALID_FORMATS == {<<"C", "D">>, <<"V", "i", "n", "y", "l">>, <<"T", "a", "p", "e">>}

Lowers == <<"a", "b", "c", "d", "e", "i", "l", "n", "p", "t", "v", "y">>
Uppers == <<"A", "B", "C", "D", "E", "I", "L", "N", "P", "T", "V", "Y">>

Body(k, t, a, l, f) ==
    [kind |-> k, title |-> t, artist |-> a, location |-> l, format |-> f]

\* JSON objects whose format is valid and whose text fields are all present.
GoodBodies ==
    { Body("object", <<"A", "b">>, <<"c">>, <<"d">>, <<"C", "D">>),
      Body("object", <<"b", "_">>, <<"a">>, <<"d">>, <<"V", "i", "n", "y", "l">>),
      Body("object", <<>>, <<"c">>, <<"b">>, <<"T", "a", "p", "e">>) }

\* JSON objects whose format is valid and that lack a text field.
NullBodies ==
    { Body("object", None, <<"c">>, <<"d">>, <<"C", "D">>) }

\* JSON objects whose format is absent or not one of VALID_FORMATS.
BadFormatBodies ==
    { Body("object", <<"A", "b">>, <<"c">>, <<"d">>, None),
      Body("object", <<"A", "b">>, <<"c">>, <<"d">>, <<"c", "d">>),
      Body("object", None, None, None, <<"8", "T">>) }

\* Bodies that are no JSON object: unparseable text, null, an array, a number.
NonObjectBodies ==
    { Body(k, None, None, None, None) : k \in {"malformed", "null", "array", "scalar"} }

\* Bodies of the sequential client. None of them has a valid format and a
\* missing text field: that insert raises IntegrityError, a storage fault,
\* which the concurrent specification covers (NullBodies).
SeqBodies == GoodBodies \cup BadFormatBodies \cup NonObjectBodies

\* Bodies of the concurrent clients.
ConcBodies ==
    { Body("object", <<"A", "b">>, <<"c">>, <<"d">>, <<"C", "D">>) } \cup NullBodies

\* Bodies sent while the program is started and restarted.
BootBodies ==
    { Body("object", <<"A", "b">>, <<"c">>, <<"d">>, <<"C", "D">>),
      Body("object", <<"A", "b">>, <<"c">>, <<"d">>, <<"c", "d">>),
      Body("null", None, None, None, None) }

\* The query parameter: missing, empty, or a search term.
Queries == { None, <<>>, <<"a">>, <<"B">>, <<"c", "d">>, <<"_">>, <<"%">>, <<"z">> }
BootQueries == { None, <<"c">> }

\* Ids a delete request may name: every id handed out and one never handed out.
Ids == 1..(MaxId + 1)
ConcIds == 1..MaxId

---------------------------------------------------------------------------
(* The store: rows, AUTOINCREMENT, DELETE, LIKE *)

Row(id, b) ==
    [id |-> id, title |-> b.title, artist |-> b.artist,
     location |-> b.location, format |-> b.format]

MaxOf(S) == IF S = {} THEN 0 ELSE CHOOSE m \in S : \A n \in S : n <= m

MaxRowid(m) == MaxOf({ m[k].id : k \in DOMAIN m })

\* Rowid without AUTOINCREMENT: one more than the largest rowid in the table.
NextRowidReuse(m, s) == MaxRowid(m) + 1

\* INTEGER PRIMARY KEY AUTOINCREMENT: one more than the largest rowid ever used.
NextRowid(m, s) == MaxOf({s, MaxRowid(m)}) + 1

\* NOT NULL on title, artist, location and format.
NotNull(b) ==
    b.title # None /\ b.artist # None /\ b.location # None /\ b.format # None

\* An INSERT whose bound parameters are taken in another order.
InsertRowSwapped(m, id, b) ==
    Append(m, [id |-> id, title |-> b.artist, artist |-> b.title,
               location |-> b.location, format |-> b.format])

\* INSERT INTO media (title, artist, location, format) VALUES (?, ?, ?, ?)
InsertRow(m, id, b) == Append(m, Row(id, b))

\* A DELETE that spares no row from the given id on.
DeleteRowsFrom(m, id) ==
    LET Keep(r) == r.id < id IN SelectSeq(m, Keep)

\* DELETE FROM media WHERE id = ?
DeleteRows(m, id) ==
    LET Keep(r) == r.id # id IN SelectSeq(m, Keep)

\* cursor.rowcount after the DELETE.
DeleteCount(m, id) == Cardinality({ k \in DOMAIN m : m[k].id = id })

\* SQLite folds the case of ASCII letters only.
Fold(c) ==
    IF \E i \in DOMAIN Uppers : Uppers[i] = c
    THEN Lowers[CHOOSE i \in DOMAIN Uppers : Uppers[i] = c]
    ELSE c

RECURSIVE Like(_, _)
\* s LIKE pat: % matches any run of characters, _ any one character, every
\* other character itself without regard to ASCII case; NULL matches nothing.
Like(s, pat) ==
    IF s = None THEN FALSE
    ELSE IF pat = <<>> THEN s = <<>>
    ELSE IF Head(pat) = "%"
         THEN \E k \in 0..Len(s) : Like(SubSeq(s, k + 1, Len(s)), Tail(pat))
    ELSE IF s = <<>> THEN FALSE
    ELSE IF Head(pat) = "_" THEN Like(Tail(s), Tail(pat))
    ELSE Fold(Head(s)) = Fold(Head(pat)) /\ Like(Tail(s), Tail(pat))

\* like = f"%{query}%"
LikePattern(query) == <<"%">> \o query \o <<"%">>

\* WHERE title LIKE ? OR artist LIKE ? OR location LIKE ? OR format LIKE ?
SearchRows(m, query) ==
    LET like == LikePattern(query)
        Hit(r) == \/ Like(r.title, like)
                  \/ Like(r.artist, like)
                  \/ Like(r.location, like)
                  \/ Like(r.format, like)
    IN  SelectSeq(m, Hit)

\* A format check that ignores case.
FormatOkAnyCase(f) ==
    f # None /\ \E v \in VALID_FORMATS :
        /\ Len(v) = Len(f)
        /\ \A i \in DOMAIN v : Fold(v[i]) = Fold(f[i])

\* data.get("format") in VALID_FORMATS
FormatOk(f) == f \in VALID_FORMATS

---------------------------------------------------------------------------
(* Requests and responses *)

NoBody == Body("none", None, None, None, None)

Request(op, b, id, q) == [op |-> op, body |-> b, id |-> id, query |-> q]

NoRequest == Request("none", NoBody, 0, None)

Response(kind, status, error, code, id, rows) ==
    [kind |-> kind, status |-> status, error |-> error, code |-> code,
     id |-> id, rows |-> rows]

NoResponse == Response("none", 0, "", 0, 0, <<>>)

\* {"error": ..., "code": n}, n
ErrorResponse(status, error) == Response("error", status, error, status, 0, <<>>)

NoTxn == [active |-> FALSE, media |-> <<>>, seq |-> 0]

NoCursor == [lastrowid |-> 0, rowcount |-> 0, rows |-> <<>>]

\* Requests that may still insert a row.
PostsInFlight ==
    Cardinality({ q \in Procs : pc[q] # "idle" /\ req[q].op = "post" })

---------------------------------------------------------------------------
(* Steps shared by the handlers *)

Goto(p, label) == pc' = [pc EXCEPT ![p] = label]

\* return body, status
Reply(p, r) ==
    /\ resp' = [resp EXCEPT ![p] = r]
    /\ pc' = [pc EXCEPT ![p] = "idle"]

\* A request reaches an idle worker. The connection of the worker's previous
\* request, when that request left it open, is out of the program's reach
\* from here on and keeps the writer lock it holds.
Arrive(p, r, label) ==
    /\ initpc \in {"off", "done"}
    /\ pc[p] = "idle"
    /\ req' = [req EXCEPT ![p] = r]
    /\ pc' = [pc EXCEPT ![p] = label]
    /\ resp' = [resp EXCEPT ![p] = NoResponse]
    /\ conn' = [conn EXCEPT ![p] = "none"]
    /\ lock' = IF conn[p] = "open" /\ lock = p THEN Leaked ELSE lock
    /\ txn' = [txn EXCEPT ![p] = NoTxn]
    /\ cursor' = [cursor EXCEPT ![p] = NoCursor]
    /\ pre' = IF p \in SeqProcs THEN media ELSE pre
    /\ lastDel' = IF p \notin SeqProcs THEN lastDel
                  ELSE IF req[p].op = "delete" /\ resp[p].status = 200
                       THEN req[p].id
                  ELSE 0
    /\ UNCHANGED <<fileExists, tableDefined, initpc, media, seq, live, gone, issued>>

\* sqlite3.connect(DATABASE): opens the file, creating it empty when absent.
Connect(p, from, to) ==
    /\ pc[p] = from
    /\ Goto(p, to)
    /\ conn' = [conn EXCEPT ![p] = "open"]
    /\ fileExists' = TRUE
    /\ UNCHANGED <<tableDefined, initpc, media, seq, lock, req, txn, cursor,
                   resp, pre, live, gone, lastDel, issued>>

\* An exception leaves the try block: the handler answers 500 and the
\* conn.close() of the try block is not reached.
Raise(p, at, error) ==
    /\ pc[p] = at
    /\ Reply(p, ErrorResponse(500, error))
    /\ UNCHANGED <<fileExists, tableDefined, initpc, media, seq, req, conn,
                   txn, cursor, pre, live, gone, lastDel, issued>>

\* conn.commit(): the connection's changes become the committed table and
\* the writer lock is released.
Commit(p, from, to) ==
    /\ pc[p] = from
    /\ Goto(p, to)
    /\ media' = txn[p].media
    /\ seq' = txn[p].seq
    /\ lock' = Free
    /\ txn' = [txn EXCEPT ![p] = NoTxn]
    /\ UNCHANGED <<fileExists, tableDefined, initpc, req, conn, cursor, resp,
                   pre, live, gone, lastDel>>

---------------------------------------------------------------------------
(* MediaList.get: GET /media/ *)

ListBegin(p) == Arrive(p, Request("list", NoBody, 0, None), "list_connect")

ListConnect(p) == Connect(p, "list_connect", "list_fetch")

\* conn.execute('SELECT * FROM media').fetchall()
ListFetch(p) ==
    /\ pc[p] = "list_fetch"
    /\ tableDefined
    /\ Goto(p, "list_return")
    /\ cursor' = [cursor EXCEPT ![p].rows = media]
    /\ UNCHANGED <<storeVars, initpc, req, conn, txn, resp, ledgerVars>>

\* sqlite3.OperationalError: no such table: media
ListFetchNoTable(p) ==
    /\ ~tableDefined
    /\ Raise(p, "list_fetch", "Database operational error")
    /\ UNCHANGED lock

\* conn.close(); return [dict(a) for a in media], 200
ListReturn(p) ==
    /\ pc[p] = "list_return"
    /\ conn' = [conn EXCEPT ![p] = "closed"]
    /\ Reply(p, Response("rows", 200, "", 0, 0, cursor[p].rows))
    /\ UNCHANGED <<storeVars, initpc, req, txn, cursor, ledgerVars>>

---------------------------------------------------------------------------
(* MediaList.post: POST /media/ *)

PostBegin(p, bodies) ==
    /\ seq + PostsInFlight < MaxId
    /\ \E b \in bodies : Arrive(p, Request("post", b, 0, None), "post_parse")

\* request.get_json(force=True) raises BadRequest on unparseable text and
\* returns None, a list or a scalar for other non-objects, on which
\* data.get raises AttributeError: both reach "except Exception".
PostParseFail(p) ==
    /\ req[p].body.kind # "object"
    /\ Raise(p, "post_parse", "An unexpected error occurred")
    /\ UNCHANGED lock

\* if data.get("format") not in VALID_FORMATS: return {...}, 400
PostInvalidFormat(p) ==
    /\ pc[p] = "post_parse"
    /\ req[p].body.kind = "object"
    /\ ~FormatOk(req[p].body.format)
    /\ Reply(p, ErrorResponse(400, "Invalid format"))
    /\ UNCHANGED <<storeVars, initpc, req, conn, txn, cursor, ledgerVars>>

\* The format check passes: conn = sqlite3.connect(DATABASE); conn.cursor()
PostConnect(p) ==
    /\ req[p].body.kind = "object"
    /\ FormatOk(req[p].body.format)
    /\ Connect(p, "post_parse", "post_execute")

\* cursor.execute(INSERT ...): takes the writer lock and adds the row, with
\* the id the store assigns, to the connection's uncommitted changes.
PostExecute(p) ==
    /\ pc[p] = "post_execute"
    /\ tableDefined
    /\ lock = Free
    /\ NotNull(req[p].body)
    /\ LET id == NextRowid(media, seq) IN
        /\ txn' = [txn EXCEPT ![p] = [active |-> TRUE,
                                      media |-> InsertRow(media, id, req[p].body),
                                      seq |-> id]]
        /\ cursor' = [cursor EXCEPT ![p].lastrowid = id]
    /\ lock' = p
    /\ Goto(p, "post_commit")
    /\ UNCHANGED <<fileExists, tableDefined, initpc, media, seq, req, conn,
                   resp, ledgerVars>>

\* sqlite3.IntegrityError: NOT NULL constraint failed. The statement is
\* undone; the connection's transaction, and its writer lock, stay open.
PostExecuteIntegrity(p) ==
    /\ tableDefined
    /\ lock = Free
    /\ ~NotNull(req[p].body)
    /\ Raise(p, "post_execute", "Database integrity error")
    /\ lock' = p

\* sqlite3.OperationalError: database is locked (another connection holds
\* the writer lock for longer than the busy timeout).
PostExecuteBusy(p) ==
    /\ tableDefined
    /\ lock # Free
    /\ Raise(p, "post_execute", "SQLite error")
    /\ UNCHANGED lock

\* sqlite3.OperationalError: no such table: media
PostExecuteNoTable(p) ==
    /\ ~tableDefined
    /\ Raise(p, "post_execute", "SQLite error")
    /\ UNCHANGED lock

\* conn.commit()
PostCommit(p) ==
    /\ Commit(p, "post_commit", "post_return")
    /\ issued' = Append(issued, [id |-> txn[p].media[Len(txn[p].media)].id,
                                 by |-> p, top |-> MaxRowid(media)])

\* new_id = cursor.lastrowid; conn.close(); return {"id": new_id}, 201
PostReturn(p) ==
    /\ pc[p] = "post_return"
    /\ conn' = [conn EXCEPT ![p] = "closed"]
    /\ Reply(p, Response("id", 201, "", 0, cursor[p].lastrowid, <<>>))
    /\ live' = IF p \in SeqProcs
               THEN live \cup {Row(cursor[p].lastrowid, req[p].body)}
               ELSE live
    /\ UNCHANGED <<storeVars, initpc, req, txn, cursor, pre, gone,
                   lastDel, issued>>

---------------------------------------------------------------------------
(* MediaResource.delete: DELETE /media/<media_id> *)

DeleteBegin(p, ids) ==
    \E id \in ids : Arrive(p, Request("delete", NoBody, id, None), "delete_connect")

\* conn = sqlite3.connect(DATABASE); cursor = conn.cursor()
DeleteConnect(p) == Connect(p, "delete_connect", "delete_execute")

\* cursor.execute("DELETE FROM media WHERE id = ?", (media_id,)): takes the
\* writer lock; the rows go with the commit.
DeleteExecute(p) ==
    /\ pc[p] = "delete_execute"
    /\ tableDefined
    /\ lock = Free
    /\ txn' = [txn EXCEPT ![p] = [active |-> TRUE,
                                  media |-> DeleteRows(media, req[p].id),
                                  seq |-> seq]]
    /\ cursor' = [cursor EXCEPT ![p].rowcount = DeleteCount(media, req[p].id)]
    /\ lock' = p
    /\ Goto(p, "delete_commit")
    /\ UNCHANGED <<fileExists, tableDefined, initpc, media, seq, req, conn,
                   resp, ledgerVars>>

\* sqlite3.OperationalError: database is locked
DeleteExecuteBusy(p) ==
    /\ tableDefined
    /\ lock # Free
    /\ Raise(p, "delete_execute", "SQLite error")
    /\ UNCHANGED lock

\* sqlite3.OperationalError: no such table: media
DeleteExecuteNoTable(p) ==
    /\ ~tableDefined
    /\ Raise(p, "delete_execute", "SQLite error")
    /\ UNCHANGED lock

\* conn.commit()
DeleteCommit(p) ==
    /\ Commit(p, "delete_commit", "delete_return")
    /\ UNCHANGED issued

\* A check that never reports a missing row.
NotFoundNever(deleted_count) == FALSE

\* if deleted_count == 0
NotFound(deleted_count) == deleted_count = 0

\* deleted_count = cursor.rowcount; conn.close(); then 404 or 200
DeleteReturn(p) ==
    /\ pc[p] = "delete_return"
    /\ conn' = [conn EXCEPT ![p] = "closed"]
    /\ IF NotFound(cursor[p].rowcount)
       THEN /\ Reply(p, ErrorResponse(404, "Media not found"))
            /\ UNCHANGED <<live, gone>>
       ELSE /\ Reply(p, Response("message", 200, "", 0, req[p].id, <<>>))
            /\ live' = IF p \in SeqProcs
                       THEN { r \in live : r.id # req[p].id } ELSE live
            /\ gone' = IF p \in SeqProcs THEN gone \cup {req[p].id} ELSE gone
    /\ UNCHANGED <<storeVars, initpc, req, txn, cursor, pre, lastDel, issued>>

---------------------------------------------------------------------------
(* MediaSearch.get: GET /media/search?query=... *)

SearchBegin(p, queries) ==
    \E q \in queries : Arrive(p, Request("search", NoBody, 0, q), "search_check")

\* if not query: return {"error": "Missing 'query' parameter", ...}, 400
SearchMissing(p) ==
    /\ pc[p] = "search_check"
    /\ req[p].query \in {None, <<>>}
    /\ Reply(p, ErrorResponse(400, "Missing 'query' parameter"))
    /\ UNCHANGED <<storeVars, initpc, req, conn, txn, cursor, ledgerVars>>

\* like = f"%{query}%"; conn = sqlite3.connect(DATABASE)
SearchConnect(p) ==
    /\ req[p].query \notin {None, <<>>}
    /\ Connect(p, "search_check", "search_fetch")

\* conn.execute(SELECT ... LIKE ...).fetchall()
SearchFetch(p) ==
    /\ pc[p] = "search_fetch"
    /\ tableDefined
    /\ Goto(p, "search_return")
    /\ cursor' = [cursor EXCEPT ![p].rows = SearchRows(media, req[p].query)]
    /\ UNCHANGED <<storeVars, initpc, req, conn, txn, resp, ledgerVars>>

\* sqlite3.OperationalError: no such table: media
SearchFetchNoTable(p) ==
    /\ ~tableDefined
    /\ Raise(p, "search_fetch", "Database error")
    /\ UNCHANGED lock

\* conn.close(); return [dict(r) for r in results], 200
SearchReturn(p) ==
    /\ pc[p] = "search_return"
    /\ conn' = [conn EXCEPT ![p] = "closed"]
    /\ Reply(p, Response("rows", 200, "", 0, 0, cursor[p].rows))
    /\ UNCHANGED <<storeVars, initpc, req, txn, cursor, ledgerVars>>

---------------------------------------------------------------------------
(* Connections no handler closed *)

\* The interpreter reclaims the connection objects no handler refers to any
\* more: each is closed, its open transaction rolled back and its lock
\* released. When this happens is up to the interpreter.
Finalize ==
    /\ \/ lock = Leaked
       \/ \E p \in Procs : pc[p] = "idle" /\ conn[p] = "open"
    /\ conn' = [p \in Procs |->
                  IF pc[p] = "idle" /\ conn[p] = "open" THEN "closed" ELSE conn[p]]
    /\ lock' = IF lock = Leaked THEN Free
               ELSE IF lock \in Procs /\ pc[lock] = "idle" /\ conn[lock] = "open"
                    THEN Free
               ELSE lock
    /\ UNCHANGED <<fileExists, tableDefined, initpc, media, seq, pc, req, txn,
                   cursor, resp, ledgerVars>>

---------------------------------------------------------------------------
(* init_db and the start of the program *)

\* python app.py: a new process runs init_db() before it serves requests.
\* The connections of the process it replaces are gone with that process.
InitStart ==
    /\ initpc \in {"off", "done"}
    /\ \A p \in Procs : pc[p] = "idle"
    /\ initpc' = "check"
    /\ resp' = [p \in Procs |-> NoResponse]
    /\ conn' = [p \in Procs |-> "none"]
    /\ lock' = Free
    /\ UNCHANGED <<fileExists, tableDefined, media, seq, pc, req, txn, cursor,
                   ledgerVars>>

\* if not Path.exists(Path(DATABASE)): ... (nothing is done otherwise)
InitCheck ==
    /\ initpc = "check"
    /\ initpc' = IF fileExists THEN "done" ELSE "connect"
    /\ UNCHANGED <<storeVars, workVars, ledgerVars>>

\* conn = sqlite3.connect(DATABASE); cursor = conn.cursor()
InitConnect ==
    /\ initpc = "connect"
    /\ initpc' = "create"
    /\ fileExists' = TRUE
    /\ UNCHANGED <<tableDefined, media, seq, lock, workVars, ledgerVars>>

\* CREATE TABLE IF NOT EXISTS media (...); conn.commit(); conn.close()
InitCreate ==
    /\ initpc = "create"
    /\ initpc' = "done"
    /\ tableDefined' = TRUE
    /\ UNCHANGED <<fileExists, media, seq, lock, workVars, ledgerVars>>

\* The process is stopped while init_db runs.
InitInterrupted ==
    /\ initpc \in {"check", "connect", "create"}
    /\ initpc' = "off"
    /\ UNCHANGED <<storeVars, workVars, ledgerVars>>

---------------------------------------------------------------------------
(* Specifications *)

InitWork ==
    /\ lock = Free
    /\ pc = [p \in Procs |-> "idle"]
    /\ req = [p \in Procs |-> NoRequest]
    /\ conn = [p \in Procs |-> "none"]
    /\ txn = [p \in Procs |-> NoTxn]
    /\ cursor = [p \in Procs |-> NoCursor]
    /\ resp = [p \in Procs |-> NoResponse]
    /\ pre = <<>>
    /\ live = {}
    /\ gone = {}
    /\ lastDel = 0
    /\ issued = <<>>

\* init_db() has run on a location that held no file: the table is there
\* and empty.
Init ==
    /\ fileExists = TRUE
    /\ tableDefined = TRUE
    /\ initpc = "done"
    /\ media = <<>>
    /\ seq = 0
    /\ InitWork

\* Nothing has run yet: no file at DATABASE, app imported, init_db not called.
InitBoot ==
    /\ fileExists = FALSE
    /\ tableDefined = FALSE
    /\ initpc = "off"
    /\ media = <<>>
    /\ seq = 0
    /\ InitWork

ListSteps(p) ==
    ListBegin(p) \/ ListConnect(p) \/ ListFetch(p) \/ ListReturn(p)

PostChecks(p) == PostParseFail(p) \/ PostInvalidFormat(p)

PostStore(p) ==
    PostConnect(p) \/ PostExecute(p) \/ PostCommit(p) \/ PostReturn(p)

DeleteSteps(p) ==
    DeleteConnect(p) \/ DeleteExecute(p) \/ DeleteCommit(p) \/ DeleteReturn(p)

SearchSteps(p) ==
    SearchMissing(p) \/ SearchConnect(p) \/ SearchFetch(p) \/ SearchReturn(p)

\* The steps of the four handlers that no storage fault interrupts.
Handle(p) ==
    ListSteps(p) \/ PostChecks(p) \/ PostStore(p) \/ DeleteSteps(p) \/ SearchSteps(p)

\* One client, one request at a time, on an initialized store.
Next ==
    \E p \in SeqProcs :
        \/ Handle(p)
        \/ PostBegin(p, SeqBodies)
        \/ DeleteBegin(p, Ids)
        \/ SearchBegin(p, Queries)

Spec == Init /\ [][Next]_vars

\* Two workers creating and deleting, their handlers interleaved step by
\* step; the writer lock, the NOT NULL constraint and the interpreter's
\* finalizer come into play.
NextConc ==
    \/ \E p \in ConcProcs :
        \/ PostBegin(p, ConcBodies)
        \/ DeleteBegin(p, ConcIds)
        \/ PostStore(p)
        \/ DeleteSteps(p)
        \/ PostExecuteIntegrity(p)
        \/ PostExecuteBusy(p)
        \/ DeleteExecuteBusy(p)
    \/ Finalize

SpecConc == Init /\ [][NextConc]_vars

\* One client on a store location that starts out empty; the program may be
\* started, stopped during init_db and started again.
NextBoot ==
    \/ \E p \in SeqProcs :
        \/ Handle(p)
        \/ PostBegin(p, BootBodies)
        \/ DeleteBegin(p, Ids)
        \/ SearchBegin(p, BootQueries)
        \/ ListFetchNoTable(p)
        \/ PostExecuteNoTable(p)
        \/ DeleteExecuteNoTable(p)
        \/ SearchFetchNoTable(p)
    \/ InitStart
    \/ InitCheck
    \/ InitConnect
    \/ InitCreate
    \/ InitInterrupted

SpecBoot == InitBoot /\ [][NextBoot]_vars

---------------------------------------------------------------------------
(* Properties *)

\* Worker p has answered a request of kind op and taken no other since.
Done(p, op) == pc[p] = "idle" /\ req[p].op = op /\ resp[p].kind # "none"

RowsOf(m) == { m[k] : k \in DOMAIN m }

IdsOf(m) == { m[k].id : k \in DOMAIN m }

\* q occurs in s as a run of consecutive characters, letter case set aside.
Contains(s, q) ==
    /\ s # None
    /\ \E k \in 0..Len(s) :
        /\ k + Len(q) <= Len(s)
        /\ \A j \in 1..Len(q) : Fold(s[k + j]) = Fold(q[j])

Matches(r, q) ==
    \/ Contains(r.title, q) \/ Contains(r.artist, q)
    \/ Contains(r.location, q) \/ Contains(r.format, q)

\* {"error": <text>, "code": status} with the given status
IsError(r, status) ==
    r.kind = "error" /\ r.status = status /\ r.code = status /\ r.error # ""

\* C1: whenever the client's list request is answered, the answer is 200 and
\* holds, for every record the client created (201) and has not deleted,
\* exactly one record with that id, and its title, artist, location and
\* format are those of the create payload.
C1_CreatedRecordListed ==
    \A p \in SeqProcs :
        Done(p, "list") =>
            /\ resp[p].status = 200
            /\ \A r \in live :
                /\ Cardinality({ k \in DOMAIN resp[p].rows :
                                   resp[p].rows[k].id = r.id }) = 1
                /\ r \in RowsOf(resp[p].rows)

\* A list answered after two creates and the delete of another record.
C1_Witness ==
    \E p \in SeqProcs :
        /\ Done(p, "list")
        /\ Cardinality(live) = 2
        /\ gone # {}

\* C2: a create request whose JSON object has format absent or outside
\* {CD, Vinyl, Tape} opens no connection, leaves the persisted rows as they
\* were when it arrived, and is answered 400 with {error, code: 400}.
C2_InvalidFormatRejected ==
    \A p \in SeqProcs :
        ( /\ req[p].op = "post"
          /\ req[p].body.kind = "object"
          /\ req[p].body.format \notin VALID_FORMATS )
        => /\ conn[p] = "none"
           /\ media = pre
           /\ pc[p] = "idle" => IsError(resp[p], 400)

\* A create with a lower-case format, rejected on a store that holds a row.
C2_Witness ==
    \E p \in SeqProcs :
        /\ Done(p, "post")
        /\ req[p].body.format = <<"c", "d">>
        /\ resp[p].status = 400
        /\ media # <<>>

\* C3: a search with a non-empty query is answered 200 with exactly the
\* persisted rows in which the query is a case-insensitive substring of
\* title, artist, location or format.
C3_SearchExact ==
    \A p \in SeqProcs :
        Done(p, "search") /\ req[p].query \notin {None, <<>>} =>
            /\ resp[p].status = 200
            /\ LET Hit(r) == Matches(r, req[p].query)
               IN  resp[p].rows = SelectSeq(media, Hit)

\* C4: a delete whose id was the id of a persisted row when the request
\* arrived is answered 200 with a message naming the id; the persisted rows
\* are then those of before without that one row; and no later list holds
\* a record with a deleted id.
C4_DeleteExisting ==
    \A p \in SeqProcs :
        /\ Done(p, "delete") /\ req[p].id \in IdsOf(pre) =>
            /\ resp[p].status = 200
            /\ resp[p].kind = "message"
            /\ resp[p].id = req[p].id
            /\ RowsOf(media) = { r \in RowsOf(pre) : r.id # req[p].id }
            /\ Len(media) = Len(pre) - 1
        /\ Done(p, "list") => IdsOf(resp[p].rows) \cap gone = {}

\* A row deleted from a store that holds other rows.
C4_Witness ==
    \E p \in SeqProcs :
        /\ Done(p, "delete")
        /\ req[p].id \in IdsOf(pre)
        /\ resp[p].status = 200
        /\ Len(pre) >= 2

C6_RowsPopulated ==
    \A r \in RowsOf(media) :
        /\ r.title \notin {None, <<>>}
        /\ r.artist \notin {None, <<>>}
        /\ r.location \notin {None, <<>>}
        /\ r.format \in VALID_FORMATS

\* C7: under concurrent creates and deletes, the ids of the committed
\* inserts strictly increase in commit order (so none is handed out twice,
\* whatever was deleted meanwhile), no two persisted rows share an id, and
\* the id a create returns is the id of the row that request inserted.
C7_IdsIncrease ==
    /\ \A j, k \in DOMAIN issued : j < k => issued[j].id < issued[k].id
    /\ \A j, k \in DOMAIN media : j # k => media[j].id # media[k].id
    /\ \A p \in ConcProcs :
        Done(p, "post") /\ resp[p].status = 201 =>
            \E k \in DOMAIN issued :
                /\ issued[k].by = p
                /\ issued[k].id = resp[p].id
                /\ \A j \in DOMAIN issued : j > k => issued[j].by # p

\* An insert by one worker commits after the row with the highest id, which
\* the other worker had inserted, was deleted.
C7_Witness ==
    \E k \in DOMAIN issued :
        /\ k > 1
        /\ issued[k].by # issued[k - 1].by
        /\ issued[k].top < issued[k - 1].id

\* C8: once init_db has returned the media table is defined, whatever was
\* at the store location before; so a list on a store without rows is
\* answered 200 with an empty array.
C8_InitDbDefinesTable ==
    initpc = "done" =>
        /\ tableDefined
        /\ \A p \in SeqProcs :
            Done(p, "list") /\ media = <<>> =>
                resp[p].status = 200 /\ resp[p].rows = <<>>

\* C9: a create whose body is unparseable or no JSON object is answered
\* 400 with {error, code: 400} and persists no row.
C9_MalformedIs400 ==
    \A p \in SeqProcs :
        Done(p, "post") /\ req[p].body.kind # "object" =>
            IsError(resp[p], 400) /\ media = pre

\* C10: when a handler has returned its response, the connection its
\* request opened is closed.
C10_ConnectionClosed ==
    \A p \in Procs :
        pc[p] = "idle" /\ resp[p].kind # "none" => conn[p] # "open"

====
